---- MODULE Spec2Model ----
(***************************************************************************)
(* Model of download_models.py: the provisioning of the MinerU model store *)
(* (inspection, layout repair, registry fetch, alias synthesis, descriptor *)
(* emission).  The model store is a record of the directories the script   *)
(* reads and writes; every function of the script is an operator over it.  *)
(***************************************************************************)
EXTENDS Integers, Sequences, FiniteSets, TLC

\* ------------------------------------------------------------------ bounds

\* Number of successive runs of main() in one behaviour.
MaxRuns == 2
\* Number of I/O faults (a shutil.move that raises) injected in one behaviour.
MaxFaults == 1
\* Half-width of the window of file sizes examined around the size threshold.
MaxDelta == 2

\* --------------------------------------------------------------- constants

\* "if size_mb > 100" in check_unimernet_complete.
MinWeightMb == 100
\* size / 1024 / 1024: bytes per MB.
BytesPerMb == 1024 * 1024
\* The size threshold T of the integrity check, in bytes.
Threshold == MinWeightMb * BytesPerMb

\* A file that does not exist has no size (os.path.exists is False).
NoFile == 0 - 1

\* ------------------------------------------------------------ file system

\* File names that occur directly under Layout/, Layout/LayoutLMv3/, MFD/
\* and MFD/YOLO/.
FileNames == {"model_final.pth", "weights.pt", "yolo_v8_ft.pt", "config.json"}

\* symlink_map of create_mfr_symlinks: every alias names unimernet_small.
AliasSeq ==
    << "unimernet_hf_small_2503", "unimernet_small_2501",
       "unimernet_hf_base_2503", "unimernet_hf_tiny_2503",
       "unimernet_base_2501", "unimernet_tiny_2501" >>

AliasNames == {AliasSeq[i] : i \in 1..Len(AliasSeq)}

\* A directory listing: file name -> size in bytes, NoFile when absent.
NoFiles == [n \in FileNames |-> NoFile]

Present(d) == {n \in FileNames : d[n] # NoFile}

\* A component directory (Layout/ or MFD/) with its one nested directory
\* (LayoutLMv3/ or YOLO/).
AbsentComp == [exists |-> FALSE, top |-> NoFiles, hasSub |-> FALSE, sub |-> NoFiles]

TopOnly(files) == [exists |-> TRUE, top |-> files, hasSub |-> FALSE, sub |-> NoFiles]

Comp(topFiles, subFiles) ==
    [exists |-> TRUE, top |-> topFiles, hasSub |-> TRUE, sub |-> subFiles]

One(n, s) == [m \in FileNames |-> IF m = n THEN s ELSE NoFile]

Two(n1, s1, n2, s2) ==
    [m \in FileNames |-> IF m = n1 THEN s1 ELSE IF m = n2 THEN s2 ELSE NoFile]

\* An entry of MFR/: absent, a real directory (with the sizes of its
\* pytorch_model.bin and pytorch_model.pth),
\* a plain file, or a symlink to the canonical directory ("small"), to the
\* first alias path MFR/unimernet_hf_small_2503 ("peer"), to a directory
\* outside the store ("ext") or to a path that does not exist ("gone").
NoEntry == [kind |-> "absent", to |-> "-", bin |-> NoFile, pth |-> NoFile]

DirEntry(b, p) == [kind |-> "dir", to |-> "-", bin |-> b, pth |-> p]

FileEntry == [kind |-> "file", to |-> "-", bin |-> NoFile, pth |-> NoFile]

LinkEntry(t) == [kind |-> "link", to |-> t, bin |-> NoFile, pth |-> NoFile]

\* The directory outside the store that a user-made symlink may name: it
\* holds complete weights.
ExtEntry == DirEntry(Threshold + 1, NoFile)

NoAliases == [a \in AliasNames |-> NoEntry]

AbsentMfr == [exists |-> FALSE, small |-> NoEntry, alias |-> NoAliases]

Mfr(small, alias) == [exists |-> TRUE, small |-> small, alias |-> alias]

\* The model store MODELS_DIR; ocr stands for the components the script
\* never inspects (OCR/, TabRec/).
EmptyStore(rootExists) ==
    [root |-> rootExists, layout |-> AbsentComp, mfd |-> AbsentComp,
     mfr |-> AbsentMfr, ocr |-> FALSE]

\* os.path.exists(MODELS_DIR) and os.listdir(MODELS_DIR)
store_nonempty(s) ==
    s.root /\ (s.layout.exists \/ s.mfd.exists \/ s.mfr.exists \/ s.ocr)

\* What sits at the path a symlink names.
entry_at(mfr, t) ==
    CASE t = "small" -> mfr.small
      [] t = "peer" -> mfr.alias[AliasSeq[1]]
      [] t = "ext" -> ExtEntry
      [] OTHER -> NoEntry

\* The entry reached from e through symlinks; a chain that does not end
\* (ELOOP) reaches nothing.
RECURSIVE follow(_, _, _)
follow(mfr, e, hops) ==
    IF e.kind # "link" THEN e
    ELSE IF hops = 0 THEN NoEntry
    ELSE follow(mfr, entry_at(mfr, e.to), hops - 1)

\* The entry MFR/unimernet_small stands for, symlinks followed.
resolve_small(mfr) == follow(mfr, mfr.small, Len(AliasSeq) + 1)

\* The entry an alias path stands for, symlinks followed.
resolve_alias(mfr, e) == follow(mfr, e, Len(AliasSeq) + 1)

\* os.path.exists follows symlinks: a dangling link does not exist.
small_exists(mfr) == resolve_small(mfr).kind # "absent"

alias_exists(mfr, a) == resolve_alias(mfr, mfr.alias[a]).kind # "absent"

\* --------------------------------------------------------- pure functions

\* is_formula_enabled with the flag of the descriptor read upside down.
is_formula_enabled_inverted(repo, conf) ==
    IF repo \in {"on", "off"} THEN repo = "on"
    ELSE IF conf \in {"on", "off"} THEN conf = "off"
    ELSE TRUE

\* is_formula_enabled: the repo-local magic-pdf.json is read first, then
\* CONFIG_PATH (the descriptor); an unreadable file falls through; no
\* readable file gives True.  A file is "on", "off", "corrupt" or "absent".
is_formula_enabled(repo, conf) ==
    IF repo \in {"on", "off"} THEN repo = "on"
    ELSE IF conf \in {"on", "off"} THEN conf = "on"
    ELSE TRUE

\* key_files of check_models_exist
LayoutModel == "model_final.pth"
YoloModel == "yolo_v8_ft.pt"
FlatWeights == "weights.pt"

layout_found(s) == s.layout.hasSub /\ s.layout.sub[LayoutModel] # NoFile

mfd_found(s) == s.mfd.hasSub /\ s.mfd.sub[YoloModel] # NoFile

\* check_models_exist: os.path.exists of the two key files; the size is
\* printed and not tested.
check_models_exist(s) ==
    IF ~s.root THEN FALSE
    ELSE layout_found(s) /\ mfd_found(s)

\* "size_mb = os.path.getsize(f) / 1024 / 1024; if size_mb > 100": the
\* division by 2^20 is exact in floating point for these sizes, so the test
\* is size > 100 * 2^20.
size_ok(size) == size > MinWeightMb * BytesPerMb

\* check_unimernet_complete
check_unimernet_complete(s) ==
    IF ~s.mfr.exists THEN FALSE
    ELSE LET e == resolve_small(s.mfr)
         IN IF e.kind = "absent" THEN FALSE
            ELSE IF e.bin # NoFile THEN size_ok(e.bin)
            ELSE IF e.pth # NoFile THEN size_ok(e.pth)
            ELSE FALSE

\* ------------------------------------------------------------ AliasResolver

\* create_symlink_safe: an existing symlink is removed, anything else that
\* exists is left alone; os.symlink fails when the file system has no
\* symlink support and nothing is put in its place.
create_symlink_safe(e, target, symlinkOK) ==
    IF e.kind \in {"dir", "file"} THEN e
    ELSE IF symlinkOK THEN LinkEntry(target) ELSE NoEntry

\* os.path.realpath of the path t: symlinks are followed up to the first
\* path that is not a symlink, whether or not anything is there.
RECURSIVE realpath(_, _, _)
realpath(mfr, t, hops) ==
    IF entry_at(mfr, t).kind = "link" /\ hops > 0
    THEN realpath(mfr, entry_at(mfr, t).to, hops - 1)
    ELSE t

\* abs_target = os.path.realpath(target_path)
realpath_small(mfr) == realpath(mfr, "small", Len(AliasSeq) + 1)

\* link_alias with whatever occupies the alias path taken for a stale alias.
link_alias_replacing(mfr, a, symlinkOK) ==
    IF ~small_exists(mfr) THEN mfr.alias[a]
    ELSE IF symlinkOK
    THEN LinkEntry(realpath_small([mfr EXCEPT !.alias[a] = NoEntry]))
    ELSE NoEntry

\* The body of the loop over symlink_map: what the alias path a holds after
\* it.  create_symlink_safe removes an existing symlink before it resolves
\* the target, so the target is resolved in the directory without that link.
link_alias(mfr, a, symlinkOK) ==
    LET e == mfr.alias[a]
        unlinked == IF e.kind = "link" THEN [mfr EXCEPT !.alias[a] = NoEntry] ELSE mfr
    IN IF e.kind = "dir" THEN e
       ELSE IF ~small_exists(mfr) THEN e
       ELSE create_symlink_safe(e, realpath_small(unlinked), symlinkOK)

\* The loop over symlink_map from its i-th item on, in the order of the dict.
RECURSIVE alias_loop(_, _, _)
alias_loop(mfr, i, symlinkOK) ==
    IF i > Len(AliasSeq) THEN mfr
    ELSE alias_loop([mfr EXCEPT !.alias[AliasSeq[i]] = link_alias(mfr, AliasSeq[i], symlinkOK)],
                    i + 1, symlinkOK)

\* create_mfr_symlinks
create_mfr_symlinks(mfr, symlinkOK) ==
    IF ~mfr.exists THEN mfr
    ELSE IF small_exists(mfr) /\ resolve_small(mfr).kind = "dir"
    THEN alias_loop(mfr, 1, symlinkOK)
    ELSE mfr

\* --------------------------------------------------------- LayoutReconciler

\* An outcome of a function that may raise: the store it leaves behind and
\* whether an exception left it.
Outcome(s, r) == [s |-> s, raised |-> r]

\* move_into with the files taken from the top directory and put nowhere.
move_into_lost(c, M) ==
    [c EXCEPT !.top = [n \in FileNames |-> IF n \in M THEN NoFile ELSE c.top[n]]]

\* shutil.move of the files M of the top directory into the nested one, under
\* the same names (os.rename replaces a file of the same name).
move_into(c, M) ==
    [c EXCEPT !.top = [n \in FileNames |-> IF n \in M THEN NoFile ELSE c.top[n]],
              !.sub = [n \in FileNames |-> IF n \in M THEN c.top[n] ELSE c.sub[n]]]

\* fix_layout with the flat layout left as it is.
fix_layout_skipped(c, mayFail) == {Outcome(c, FALSE)}

\* "Fix Layout structure": when Layout/model_final.pth exists and the nested
\* one does not, LayoutLMv3/ is made and every item of Layout/ is moved into
\* it, in the order of os.listdir.  A move that raises leaves the items moved
\* before it in place (raised = TRUE).
fix_layout(c, mayFail) ==
    IF c.exists /\ c.top[LayoutModel] # NoFile
       /\ ~(c.hasSub /\ c.sub[LayoutModel] # NoFile)
    THEN LET made == [c EXCEPT !.hasSub = TRUE]
             items == Present(c.top)
         IN {Outcome(move_into(made, items), FALSE)}
            \cup (IF mayFail
                  THEN {Outcome(move_into(made, M), TRUE) : M \in (SUBSET items) \ {items}}
                  ELSE {})
    ELSE {Outcome(c, FALSE)}

\* "Fix MFD structure": MFD/weights.pt becomes MFD/YOLO/yolo_v8_ft.pt when the
\* latter does not exist.
fix_mfd_weights(c, mayFail) ==
    IF c.exists /\ c.top[FlatWeights] # NoFile
       /\ ~(c.hasSub /\ c.sub[YoloModel] # NoFile)
    THEN LET made == [c EXCEPT !.hasSub = TRUE]
         IN {Outcome([made EXCEPT !.top[FlatWeights] = NoFile,
                                  !.sub[YoloModel] = c.top[FlatWeights]], FALSE)}
            \cup (IF mayFail THEN {Outcome(made, TRUE)} ELSE {})
    ELSE {Outcome(c, FALSE)}

\* "Move other MFD files to YOLO/": every file left directly under MFD/ whose
\* name is free in YOLO/ is moved there.
fix_mfd_others(c, mayFail) ==
    IF c.exists
    THEN LET items == {n \in Present(c.top) : ~(c.hasSub /\ c.sub[n] # NoFile)}
             made == [c EXCEPT !.hasSub = TRUE]
         IN IF items = {} THEN {Outcome(c, FALSE)}
            ELSE {Outcome(move_into(made, items), FALSE)}
                 \cup (IF mayFail
                       THEN {Outcome(move_into(made, M), TRUE) :
                                M \in (SUBSET items) \ {items}}
                       ELSE {})
    ELSE {Outcome(c, FALSE)}

fix_mfd(c, mayFail) ==
    UNION { IF o.raised THEN {o} ELSE fix_mfd_others(o.s, mayFail) :
            o \in fix_mfd_weights(c, mayFail) }

\* create_directory_structure: Layout, then MFD, then (formula recognition
\* enabled) the aliases; an exception of a move propagates and skips the rest.
create_directory_structure(s, fe, symlinkOK, mayFail) ==
    UNION {
      IF lo.raised THEN {Outcome([s EXCEPT !.layout = lo.s], TRUE)}
      ELSE UNION {
        IF mo.raised
        THEN {Outcome([s EXCEPT !.layout = lo.s, !.mfd = mo.s], TRUE)}
        ELSE {Outcome([s EXCEPT !.layout = lo.s, !.mfd = mo.s,
                                !.mfr = IF fe THEN create_mfr_symlinks(s.mfr, symlinkOK)
                                        ELSE s.mfr], FALSE)}
        : mo \in fix_mfd(s.mfd, mayFail) }
      : lo \in fix_layout(s.layout, mayFail) }

\* ---------------------------------------------------- ArtifactRegistryClient

\* What snapshot_download of HF_REPO_PDF_KIT delivers into the staging
\* directory: nothing (it raises), or a tree holding the components either
\* under models/ ("models") or at its top ("top").
Snapshot(style, layout, mfd, mfr, ocr) ==
    [avail |-> TRUE, style |-> style, layout |-> layout, mfd |-> mfd,
     mfr |-> mfr, ocr |-> ocr]

Unavailable ==
    [avail |-> FALSE, style |-> "top", layout |-> AbsentComp, mfd |-> AbsentComp,
     mfr |-> AbsentMfr, ocr |-> FALSE]

FlatLayout == TopOnly(Two(LayoutModel, 1, "config.json", 1))
NestedLayout == Comp(NoFiles, Two(LayoutModel, 1, "config.json", 1))
FlatMfd == TopOnly(Two(FlatWeights, 1, "config.json", 1))
NestedMfd == Comp(NoFiles, Two(YoloModel, 1, "config.json", 1))
\* MFR/ of the kit: unimernet_small with its configuration files only.
StubMfr == Mfr(DirEntry(NoFile, NoFile), NoAliases)

BaseSnapshots ==
    << Unavailable,
       Snapshot("models", FlatLayout, FlatMfd, StubMfr, TRUE),
       Snapshot("top", FlatLayout, FlatMfd, StubMfr, TRUE),
       Snapshot("models", NestedLayout, NestedMfd, StubMfr, TRUE),
       Snapshot("top", NestedLayout, NestedMfd, AbsentMfr, TRUE),
       Snapshot("models", AbsentComp, FlatMfd, AbsentMfr, TRUE),
       Snapshot("top", AbsentComp, FlatMfd, AbsentMfr, TRUE),
       Snapshot("top", AbsentComp, AbsentComp, AbsentMfr, FALSE) >>

\* What snapshot_download of HF_REPO_UNIMERNET_SMALL delivers into
\* MFR/unimernet_small: nothing (it raises), or the two weight files' sizes.
UniSnapshot(b, p) == [avail |-> TRUE, bin |-> b, pth |-> p]

UniUnavailable == [avail |-> FALSE, bin |-> NoFile, pth |-> NoFile]

UniSnapshots ==
    << UniUnavailable,
       UniSnapshot(Threshold + 1, NoFile),
       UniSnapshot(Threshold, NoFile),
       UniSnapshot(0, NoFile),
       UniSnapshot(NoFile, Threshold + 1) >>

\* model_dirs of download_models, in its order (OCR and TabRec are one item).
ModelDirs == << "layout", "mfd", "mfr", "ocr" >>

in_snapshot(snap, item) == IF item = "ocr" THEN snap.ocr ELSE snap[item].exists

\* shutil.rmtree(dst)
without(s, item) ==
    CASE item = "layout" -> [s EXCEPT !.layout = AbsentComp]
      [] item = "mfd" -> [s EXCEPT !.mfd = AbsentComp]
      [] item = "mfr" -> [s EXCEPT !.mfr = AbsentMfr]
      [] OTHER -> [s EXCEPT !.ocr = FALSE]

\* shutil.rmtree(dst); shutil.move(src, dst)
replaced(s, snap, item) ==
    CASE item = "layout" -> [s EXCEPT !.layout = snap.layout]
      [] item = "mfd" -> [s EXCEPT !.mfd = snap.mfd]
      [] item = "mfr" -> [s EXCEPT !.mfr = snap.mfr]
      [] OTHER -> [s EXCEPT !.ocr = snap.ocr]

\* The loop over model_dirs from item i on; failAt is the index of the item
\* whose move raises (0: none does): that item has been removed and is not
\* replaced, and the items after it are untouched.
RECURSIVE merge_top(_, _, _, _)
merge_top(s, snap, i, failAt) ==
    IF i > Len(ModelDirs) THEN s
    ELSE IF ~in_snapshot(snap, ModelDirs[i]) THEN merge_top(s, snap, i + 1, failAt)
    ELSE IF i = failAt THEN without(s, ModelDirs[i])
    ELSE merge_top(replaced(s, snap, ModelDirs[i]), snap, i + 1, failAt)

\* The result of download_models: the store, its return value, whether the
\* staging directory is left behind, whether snapshot_download raised, whether
\* a move raised, and whether create_directory_structure was reached.
Fetched(s, ok, staging, fetchRaised, fault, fixed) ==
    [s |-> s, ok |-> ok, staging |-> staging, fetchRaised |-> fetchRaised,
     fault |-> fault, fixed |-> fixed]

\* fetched_and_fixed with the merged store returned as it is.
fetched_unfixed(s, fe, symlinkOK, mayFail) ==
    {Fetched(s, TRUE, FALSE, FALSE, FALSE, FALSE)}

\* "Fix directory structure" at the end of download_models, inside its try.
fetched_and_fixed(s, fe, symlinkOK, mayFail) ==
    { Fetched(o.s, ~o.raised, FALSE, FALSE, o.raised, TRUE) :
        o \in create_directory_structure(s, fe, symlinkOK, mayFail) }

\* fetch_failed with the store cleared ahead of the fetch.
fetch_failed_cleared(s) == Fetched(EmptyStore(TRUE), FALSE, TRUE, TRUE, FALSE, FALSE)

\* download_models when snapshot_download raises: MODELS_DIR and the staging
\* directory have been made, the except clause returns False.
fetch_failed(s) == Fetched([s EXCEPT !.root = TRUE], FALSE, TRUE, TRUE, FALSE, FALSE)

\* download_models
download_models(s, snap, fe, symlinkOK, mayFail) ==
    LET made == [s EXCEPT !.root = TRUE]
    IN IF ~snap.avail
       THEN {fetch_failed(s)}
       ELSE IF snap.style = "models"
       THEN fetched_and_fixed(
                [root |-> TRUE, layout |-> snap.layout, mfd |-> snap.mfd,
                 mfr |-> snap.mfr, ocr |-> snap.ocr], fe, symlinkOK, mayFail)
            \cup (IF mayFail
                  THEN {Fetched(EmptyStore(FALSE), FALSE, TRUE, FALSE, TRUE, FALSE)}
                  ELSE {})
       ELSE IF \A i \in 1..Len(ModelDirs) : ~in_snapshot(snap, ModelDirs[i])
       THEN {Fetched(made, FALSE, TRUE, FALSE, FALSE, FALSE)}
       ELSE fetched_and_fixed(merge_top(made, snap, 1, 0), fe, symlinkOK, mayFail)
            \cup (IF mayFail
                  THEN {Fetched(merge_top(made, snap, 1, k), FALSE, TRUE, FALSE, TRUE, FALSE) :
                          k \in {i \in 1..Len(ModelDirs) : in_snapshot(snap, ModelDirs[i])}}
                  ELSE {})

\* The result of download_unimernet_models: the store and its return value.
\* MFR/ is made; an existing unimernet_small (a dangling link does not
\* "exist") is removed before the fetch (shutil.rmtree of a plain file
\* raises); the fetch into a dangling link raises; True is returned only when
\* pytorch_model.bin has arrived.
download_unimernet_models(s, usnap) ==
    LET made == [s EXCEPT !.root = TRUE, !.mfr.exists = TRUE]
        dangling == made.mfr.small.kind = "link" /\ ~small_exists(made.mfr)
        cleared == IF small_exists(made.mfr)
                   THEN [made EXCEPT !.mfr.small = NoEntry]
                   ELSE made
    IN IF made.mfr.small.kind = "file"
       THEN [s |-> made, ok |-> FALSE]
       ELSE IF ~usnap.avail \/ dangling
       THEN [s |-> cleared, ok |-> FALSE]
       ELSE [s |-> [cleared EXCEPT !.mfr.small = DirEntry(usnap.bin, usnap.pth)],
             ok |-> usnap.bin # NoFile]

\* create_config with the descriptor file left as it was found.
create_config_skipped(repo, conf) == conf

\* create_config: the descriptor, with the formula-recognition flag.
create_config(repo, conf) == IF is_formula_enabled(repo, conf) THEN "on" ELSE "off"

\* ------------------------------------------------- ProvisioningOrchestrator

VARIABLES
    store,            \* MODELS_DIR
    descr,            \* CONFIG_PATH: "absent", "on", "off" or "corrupt"
    staging,          \* temp_download_dir exists
    repoCfg,          \* the repo-local magic-pdf.json
    force,            \* "--force" in sys.argv
    symlinkOK,        \* the file system supports symlinks
    registry,         \* the snapshots the registry serves (0: not asked yet)
    pc,               \* position in main()
    formula_enabled,  \* main's local
    need_unimernet,   \* main's local
    run,              \* number of the current run
    faults,           \* I/O faults injected so far
    pre,              \* the store when the current run started
    preDescr,         \* the descriptor when the current run started
    log,              \* what the current run has done
    api_pc,           \* position in api_parse()
    upload,           \* the request: file name, parse_method, lang
    tmp_file,         \* the temporary file of the request exists on disk
    tmp_path,         \* api_parse's local: "None" or "set"
    raised,           \* the exception propagating in api_parse ("none")
    mineru,           \* how the MinerU path of the request ended
    fallback_calls,   \* calls of tesseract_ocr_fallback in the request
    status            \* HTTP status of the response (0: none yet)

apiVars == << api_pc, upload, tmp_file, tmp_path, raised, mineru, fallback_calls, status >>

vars == << store, descr, staging, repoCfg, force, symlinkOK, registry, pc,
           formula_enabled, need_unimernet, run, faults, pre, preDescr, log,
           api_pc, upload, tmp_file, tmp_path, raised, mineru, fallback_calls, status >>

\* No request is being handled.
NoUpload == [filename |-> "", parse_method |-> "auto", lang |-> "None"]

ApiIdle ==
    /\ api_pc = "idle"
    /\ upload = NoUpload
    /\ tmp_file = FALSE
    /\ tmp_path = "None"
    /\ raised = "none"
    /\ mineru = "none"
    /\ fallback_calls = 0
    /\ status = 0

Terminal == {"done", "exit1", "crashed"}

\* "if force or not check_models_exist()" and the test under it: where main
\* goes after the inspection.
route(f, s) ==
    IF f \/ ~check_models_exist(s)
    THEN (IF ~f /\ store_nonempty(s) THEN "repair" ELSE "fetch")
    ELSE "uni"

\* after_repair with the fetch made whatever the repair achieved.
after_repair_refetch(s) == "fetch"

\* "if check_models_exist(): Structure fixed! else: re-downloading"
after_repair(s) == IF check_models_exist(s) THEN "uni" ELSE "fetch"

\* after_download with the return value of download_models ignored.
after_download_ignored(ok) == "uni"

\* "success = download_models(); if not success: sys.exit(1)"
after_download(ok) == IF ok THEN "uni" ELSE "exit1"

\* wants_unimernet with the weights fetched in every run.
wants_unimernet_always(fe, need, s) == TRUE

\* "if formula_enabled and (need_unimernet or not check_unimernet_complete())"
wants_unimernet(fe, need, s) == fe /\ (need \/ ~check_unimernet_complete(s))

\* after_unimernet with a failed download treated like a failed base fetch.
after_unimernet_strict(ok) == IF ok THEN "config" ELSE "exit1"

\* Both branches of "if download_unimernet_models()" go on to create_config.
after_unimernet(ok) == "config"

MayFail == faults < MaxFaults

\* main, lines 483-498: the formula check and the first repair pass.
PreCheck ==
    /\ UNCHANGED apiVars
    /\ pc = "start"
    /\ LET fe == is_formula_enabled(repoCfg, descr)
       IN /\ formula_enabled' = fe
          /\ IF fe /\ store_nonempty(store)
             THEN \E o \in create_directory_structure(store, fe, symlinkOK, MayFail) :
                    /\ store' = o.s
                    /\ faults' = IF o.raised THEN faults + 1 ELSE faults
                    /\ pc' = IF o.raised THEN "crashed" ELSE "inspect"
                    /\ need_unimernet' = (~o.raised /\ ~check_unimernet_complete(o.s))
                    /\ log' = log \cup {"pre_repair"}
                                  \cup (IF o.raised THEN {"fault"} ELSE {})
             ELSE /\ pc' = "inspect"
                  /\ need_unimernet' = FALSE
                  /\ UNCHANGED << store, faults, log >>
    /\ UNCHANGED << descr, staging, repoCfg, force, symlinkOK, registry, run, pre, preDescr >>

\* main, lines 501-502 and 516: the inspection.
Inspect ==
    /\ UNCHANGED apiVars
    /\ pc = "inspect"
    /\ pc' = route(force, store)
    /\ log' = log \cup {"route_" \o route(force, store)}
    /\ UNCHANGED << store, descr, staging, repoCfg, force, symlinkOK, registry,
                    formula_enabled, need_unimernet, run, faults, pre, preDescr >>

\* main, lines 503-508: the repair pass and the second inspection.
Repair ==
    /\ UNCHANGED apiVars
    /\ pc = "repair"
    /\ \E o \in create_directory_structure(store, is_formula_enabled(repoCfg, descr),
                                           symlinkOK, MayFail) :
          /\ store' = o.s
          /\ faults' = IF o.raised THEN faults + 1 ELSE faults
          /\ pc' = IF o.raised THEN "crashed" ELSE after_repair(o.s)
          /\ log' = log \cup {"repair"}
                        \cup (IF o.raised THEN {"fault"} ELSE {})
                        \cup (IF ~o.raised /\ check_models_exist(o.s)
                              THEN {"repair_fixed"} ELSE {})
    /\ UNCHANGED << descr, staging, repoCfg, force, symlinkOK, registry,
                    formula_enabled, need_unimernet, run, pre, preDescr >>

\* main, lines 509-515 and 517-523: download_models and the exit on failure.
Fetch ==
    /\ UNCHANGED apiVars
    /\ pc = "fetch"
    /\ \E i \in 1..Len(BaseSnapshots) :
          /\ registry.base \in {0, i}
          /\ registry' = [registry EXCEPT !.base = i]
          /\ \E r \in download_models(store, BaseSnapshots[i],
                                      is_formula_enabled(repoCfg, descr),
                                      symlinkOK, MayFail) :
                /\ store' = r.s
                /\ staging' = r.staging
                /\ faults' = IF r.fault THEN faults + 1 ELSE faults
                /\ pc' = after_download(r.ok)
                /\ need_unimernet' = IF r.ok /\ formula_enabled THEN TRUE
                                     ELSE need_unimernet
                /\ log' = log \cup {"base_called"}
                              \cup (IF r.fetchRaised THEN {"base_raised"} ELSE {})
                              \cup (IF r.fault THEN {"fault"} ELSE {})
                              \cup (IF r.fixed THEN {"base_fixed"} ELSE {})
                              \cup (IF r.ok THEN {"base_ok"} ELSE {"base_failed"})
    /\ UNCHANGED << descr, repoCfg, force, symlinkOK, formula_enabled, run, pre, preDescr >>

\* main, lines 525-540: the formula-recognition weights and their aliases.
Unimernet ==
    /\ UNCHANGED apiVars
    /\ pc = "uni"
    /\ IF wants_unimernet(formula_enabled, need_unimernet, store)
       THEN \E i \in 1..Len(UniSnapshots) :
              /\ registry.uni \in {0, i}
              /\ registry' = [registry EXCEPT !.uni = i]
              /\ LET r == download_unimernet_models(store, UniSnapshots[i])
                 IN /\ store' = IF r.ok
                                THEN [r.s EXCEPT !.mfr = create_mfr_symlinks(r.s.mfr, symlinkOK)]
                                ELSE r.s
                    /\ pc' = after_unimernet(r.ok)
                    /\ log' = log \cup {"uni_called"}
                                  \cup (IF r.ok THEN {"uni_ok"} ELSE {"uni_failed"})
       ELSE /\ pc' = "config"
            /\ UNCHANGED << store, registry, log >>
    /\ UNCHANGED << descr, staging, repoCfg, force, symlinkOK, formula_enabled,
                    need_unimernet, run, faults, pre, preDescr >>

\* main, lines 542-544: the descriptor is written and the run exits 0.
Config ==
    /\ UNCHANGED apiVars
    /\ pc = "config"
    /\ descr' = create_config(repoCfg, descr)
    /\ pc' = "done"
    /\ log' = log \cup {"descriptor_written"}
    /\ UNCHANGED << store, staging, repoCfg, force, symlinkOK, registry,
                    formula_enabled, need_unimernet, run, faults, pre, preDescr >>

\* The script is run again with the same flags against the same registry.
NextRun ==
    /\ UNCHANGED apiVars
    /\ pc \in Terminal
    /\ run < MaxRuns
    /\ run' = run + 1
    /\ pc' = "start"
    /\ pre' = store
    /\ preDescr' = descr
    /\ log' = {}
    /\ formula_enabled' = FALSE
    /\ need_unimernet' = FALSE
    /\ UNCHANGED << store, descr, staging, repoCfg, force, symlinkOK, registry, faults >>

\* The stores a first run may find.
InitLayouts == {AbsentComp, FlatLayout, NestedLayout, Comp(NoFiles, One(LayoutModel, 0))}

InitMfds == {AbsentComp, FlatMfd, NestedMfd, Comp(One("config.json", 1), One(YoloModel, 1))}

InitSmalls == {NoEntry, DirEntry(Threshold + 1, NoFile), DirEntry(0, NoFile)}

\* What a user may have put at an alias path.
InitUserAliases == {NoEntry, DirEntry(1, NoFile), LinkEntry("small"), LinkEntry("gone")}

InitMfrs ==
    {AbsentMfr} \cup
    { Mfr(sm, [NoAliases EXCEPT ![AliasSeq[1]] = al]) :
        sm \in InitSmalls, al \in InitUserAliases }

InitStores ==
    {EmptyStore(FALSE)} \cup
    { [root |-> TRUE, layout |-> l, mfd |-> m, mfr |-> r, ocr |-> o] :
        l \in InitLayouts, m \in InitMfds, r \in InitMfrs, o \in BOOLEAN }

\* The repo-local configuration and the descriptor a first run may find.
InitConfigs ==
    { << "absent", "absent" >>, << "off", "absent" >>,
      << "absent", "off" >>, << "absent", "corrupt" >> }

Init ==
    /\ store \in InitStores
    /\ \E c \in InitConfigs : repoCfg = c[1] /\ descr = c[2]
    /\ staging = FALSE
    /\ force \in BOOLEAN
    /\ symlinkOK \in BOOLEAN
    /\ registry = [base |-> 0, uni |-> 0]
    /\ pc = "start"
    /\ formula_enabled = FALSE
    /\ need_unimernet = FALSE
    /\ run = 1
    /\ faults = 0
    /\ pre = store
    /\ preDescr = descr
    /\ log = {}
    /\ ApiIdle

Next == PreCheck \/ Inspect \/ Repair \/ Fetch \/ Unimernet \/ Config \/ NextRun

Spec == Init /\ [][Next]_vars

\* ------------------------------------------- the integrity check on its own

\* The sizes a weight file is given: none, empty, and the window around the
\* threshold.
WeightSizes == {NoFile, 0} \cup ((Threshold - MaxDelta) .. (Threshold + MaxDelta))

VerifySmalls ==
    {NoEntry, LinkEntry("ext"), LinkEntry("gone")}
    \cup {DirEntry(b, p) : b \in WeightSizes, p \in WeightSizes}

Idle ==
    /\ descr = "absent"
    /\ staging = FALSE
    /\ repoCfg = "absent"
    /\ force = FALSE
    /\ registry = [base |-> 0, uni |-> 0]
    /\ formula_enabled = TRUE
    /\ need_unimernet = FALSE
    /\ run = 1
    /\ faults = 0
    /\ pre = store
    /\ preDescr = descr
    /\ log = {}

InitVerify ==
    /\ ApiIdle
    /\ store \in {[EmptyStore(TRUE) EXCEPT !.mfr = m] :
                    m \in {AbsentMfr} \cup {Mfr(sm, NoAliases) : sm \in VerifySmalls}}
    /\ symlinkOK = TRUE
    /\ pc = "verify"
    /\ Idle

\* check_unimernet_complete is called and its result noted.
Verify ==
    /\ UNCHANGED apiVars
    /\ pc = "verify"
    /\ pc' = "verified"
    /\ log' = {IF check_unimernet_complete(store) THEN "complete" ELSE "incomplete"}
    /\ UNCHANGED << store, descr, staging, repoCfg, force, symlinkOK, registry,
                    formula_enabled, need_unimernet, run, faults, pre, preDescr >>

NextVerify == Verify

SpecVerify == InitVerify /\ [][NextVerify]_vars

\* ------------------------------------------------ the alias pass on its own

\* What may occupy an alias path before a pass.
AliasEntries ==
    {NoEntry, DirEntry(1, NoFile), FileEntry,
     LinkEntry("small"), LinkEntry("ext"), LinkEntry("gone")}

AliasSmalls ==
    {NoEntry, DirEntry(Threshold + 1, NoFile),
     LinkEntry("ext"), LinkEntry("gone"), LinkEntry("peer")}

InitAlias ==
    /\ ApiIdle
    /\ store \in {[EmptyStore(TRUE) EXCEPT !.mfr = m] :
                    m \in {AbsentMfr} \cup
                          {Mfr(sm, al) : sm \in AliasSmalls, al \in [AliasNames -> AliasEntries]}}
    /\ symlinkOK \in BOOLEAN
    /\ pc = "alias"
    /\ Idle

\* One pass of create_mfr_symlinks.
AliasPass ==
    /\ UNCHANGED apiVars
    /\ pc = "alias"
    /\ pc' = "aliased"
    /\ store' = [store EXCEPT !.mfr = create_mfr_symlinks(store.mfr, symlinkOK)]
    /\ UNCHANGED << descr, staging, repoCfg, force, symlinkOK, registry,
                    formula_enabled, need_unimernet, run, faults, pre, preDescr, log >>

NextAlias == AliasPass

SpecAlias == InitAlias /\ [][NextAlias]_vars

\* ------------------------------------------------ the repair pass on its own

\* The listings a directory is given before a pass: each file name is there
\* or not; files directly under the component have size 1, files in its
\* nested directory size 2.
Listings(size) == [FileNames -> {NoFile, size}]

RepairComps ==
    {AbsentComp}
    \cup {TopOnly(t) : t \in Listings(1)}
    \cup {Comp(t, n) : t \in Listings(1), n \in Listings(2)}

InitRepair ==
    /\ ApiIdle
    /\ store \in {[EmptyStore(TRUE) EXCEPT !.layout = l, !.mfd = m] :
                    l \in RepairComps, m \in RepairComps}
    /\ symlinkOK = TRUE
    /\ pc = "repairing"
    /\ Idle

\* One pass of create_directory_structure; a move may raise.
RepairPass ==
    /\ UNCHANGED apiVars
    /\ pc = "repairing"
    /\ pc' = "repaired"
    /\ \E o \in create_directory_structure(store, formula_enabled, symlinkOK, MayFail) :
          /\ store' = o.s
          /\ faults' = IF o.raised THEN faults + 1 ELSE faults
          /\ log' = IF o.raised THEN {"fault"} ELSE {}
    /\ UNCHANGED << descr, staging, repoCfg, force, symlinkOK, registry,
                    formula_enabled, need_unimernet, run, pre, preDescr >>

NextRepair == RepairPass

SpecRepair == InitRepair /\ [][NextRepair]_vars

\* ------------------------------------------------- the /api/parse handler

\* The file names a request may carry.
Filenames == {"", "doc.pdf", "DOC.PDF", "scan.png", "notes.txt", "noext"}

\* os.path.splitext(file.filename)[1].lower()
ext(filename) ==
    CASE filename \in {"doc.pdf", "DOC.PDF"} -> ".pdf"
      [] filename = "scan.png" -> ".png"
      [] filename = "notes.txt" -> ".txt"
      [] OTHER -> ""

AllowedExts == {".pdf", ".png", ".jpg", ".jpeg", ".tiff", ".bmp"}

ParseMethods == {"auto", "ocr", "txt"}

Langs == {"None", "eng"}

\* What the MinerU path may raise: models missing, engine not installed
\* (ModuleNotFoundError is a subclass of ImportError), and other failures.
MinerUErrors ==
    {"FileNotFoundError", "ImportError", "ModuleNotFoundError",
     "PermissionError", "RuntimeError"}

\* What tesseract_ocr_fallback may raise: pdftoppm missing, conversion failed.
FallbackErrors == {"FileNotFoundError", "Exception"}

\* falls_back with every failure of the MinerU path sent to the fallback.
falls_back_always(e) == TRUE

\* "except FileNotFoundError" and "except ImportError" of the inner try.
falls_back(e) == e \in {"FileNotFoundError", "ImportError", "ModuleNotFoundError"}

\* The provisioning script is not running while requests are served.
Served ==
    /\ store = EmptyStore(TRUE)
    /\ symlinkOK = TRUE
    /\ pc = "served"
    /\ Idle

InitApi ==
    /\ Served
    /\ api_pc = "validate"
    /\ upload \in [filename : Filenames, parse_method : ParseMethods, lang : Langs]
    /\ tmp_file = FALSE
    /\ tmp_path = "None"
    /\ raised = "none"
    /\ mineru = "none"
    /\ fallback_calls = 0
    /\ status = 0

\* api_parse, lines 169-174: the two HTTP 400 answers, raised before the try.
Validate ==
    /\ api_pc = "validate"
    /\ IF upload.filename = "" \/ ext(upload.filename) \notin AllowedExts
       THEN status' = 400 /\ api_pc' = "responded"
       ELSE status' = status /\ api_pc' = "create"
    /\ UNCHANGED << upload, tmp_file, tmp_path, raised, mineru, fallback_calls >>
    /\ UNCHANGED << store, descr, staging, repoCfg, force, symlinkOK, registry, pc,
                    formula_enabled, need_unimernet, run, faults, pre, preDescr, log >>

\* line 181: tempfile.NamedTemporaryFile(delete=False) makes the file, or
\* raises and makes none.
CreateTemp ==
    /\ api_pc = "create"
    /\ \/ tmp_file' = TRUE /\ raised' = raised /\ api_pc' = "read"
       \/ tmp_file' = FALSE /\ raised' = "OSError" /\ api_pc' = "except"
    /\ UNCHANGED << upload, tmp_path, mineru, fallback_calls, status >>
    /\ UNCHANGED << store, descr, staging, repoCfg, force, symlinkOK, registry, pc,
                    formula_enabled, need_unimernet, run, faults, pre, preDescr, log >>

\* line 182: content = await file.read()
ReadUpload ==
    /\ api_pc = "read"
    /\ \/ raised' = raised /\ api_pc' = "write"
       \/ raised' = "OSError" /\ api_pc' = "except"
    /\ UNCHANGED << upload, tmp_file, tmp_path, mineru, fallback_calls, status >>
    /\ UNCHANGED << store, descr, staging, repoCfg, force, symlinkOK, registry, pc,
                    formula_enabled, need_unimernet, run, faults, pre, preDescr, log >>

\* lines 183-184: tmp.write(content), then tmp_path = tmp.name, then the file
\* is closed at the end of the with block; the write or the close may raise.
WriteUpload ==
    /\ api_pc = "write"
    /\ \/ tmp_path' = "set" /\ raised' = raised /\ api_pc' = "mineru"
       \/ tmp_path' = tmp_path /\ raised' = "OSError" /\ api_pc' = "except"
       \/ tmp_path' = "set" /\ raised' = "OSError" /\ api_pc' = "except"
    /\ UNCHANGED << upload, tmp_file, mineru, fallback_calls, status >>
    /\ UNCHANGED << store, descr, staging, repoCfg, force, symlinkOK, registry, pc,
                    formula_enabled, need_unimernet, run, faults, pre, preDescr, log >>

\* lines 188-232 and the two except clauses of the inner try: the MinerU path
\* returns, or raises something that sends the request to the fallback, or
\* raises something else.
MinerU ==
    /\ api_pc = "mineru"
    /\ \E o \in {"ok"} \cup MinerUErrors :
          /\ mineru' = o
          /\ IF o = "ok"
             THEN status' = 200 /\ raised' = raised /\ api_pc' = "finally"
             ELSE IF falls_back(o)
             THEN status' = status /\ raised' = raised /\ api_pc' = "fallback"
             ELSE status' = status /\ raised' = o /\ api_pc' = "except"
    /\ UNCHANGED << upload, tmp_file, tmp_path, fallback_calls >>
    /\ UNCHANGED << store, descr, staging, repoCfg, force, symlinkOK, registry, pc,
                    formula_enabled, need_unimernet, run, faults, pre, preDescr, log >>

\* lines 234-254: tesseract_ocr_fallback is called inside an except clause of
\* the inner try, so what it raises leaves that try.
Fallback ==
    /\ api_pc = "fallback"
    /\ fallback_calls' = fallback_calls + 1
    /\ \/ status' = 200 /\ raised' = raised /\ api_pc' = "finally"
       \/ \E e \in FallbackErrors :
             status' = status /\ raised' = e /\ api_pc' = "except"
    /\ UNCHANGED << upload, tmp_file, tmp_path, mineru >>
    /\ UNCHANGED << store, descr, staging, repoCfg, force, symlinkOK, registry, pc,
                    formula_enabled, need_unimernet, run, faults, pre, preDescr, log >>

\* lines 256-259: "except Exception" turns the exception into HTTP 500.
Except ==
    /\ api_pc = "except"
    /\ status' = 500
    /\ api_pc' = "finally"
    /\ UNCHANGED << upload, tmp_file, tmp_path, raised, mineru, fallback_calls >>
    /\ UNCHANGED << store, descr, staging, repoCfg, force, symlinkOK, registry, pc,
                    formula_enabled, need_unimernet, run, faults, pre, preDescr, log >>

\* lines 261-263: "if tmp_path and os.path.exists(tmp_path): os.unlink"
Finally ==
    /\ api_pc = "finally"
    /\ tmp_file' = IF tmp_path = "set" /\ tmp_file THEN FALSE ELSE tmp_file
    /\ api_pc' = "responded"
    /\ UNCHANGED << upload, tmp_path, raised, mineru, fallback_calls, status >>
    /\ UNCHANGED << store, descr, staging, repoCfg, force, symlinkOK, registry, pc,
                    formula_enabled, need_unimernet, run, faults, pre, preDescr, log >>

NextApi ==
    Validate \/ CreateTemp \/ ReadUpload \/ WriteUpload \/ MinerU \/ Fallback
    \/ Except \/ Finally

SpecApi == InitApi /\ [][NextApi]_vars

\* ------------------------------------------------------------------ claims

\* C1: whenever a run writes the descriptor and exits 0, both key files exist
\* at their canonical paths; a run that fetched and still misses a key file
\* ends in failure without writing the descriptor.
C1_ReadyImpliesRequired ==
    /\ pc = "done" => check_models_exist(store)
    /\ (pc \in Terminal /\ "base_called" \in log /\ ~check_models_exist(store))
          => (pc # "done" /\ "descriptor_written" \notin log)

\* C2: a second run in succession (same flags, same registry, no I/O fault)
\* leaves the store and the descriptor as the first run left them.
C2_Idempotent ==
    (run >= 2 /\ pc \in Terminal /\ faults = 0) => (store = pre /\ descr = preDescr)

\* C3: at the end of a failed run (exit 1 or uncaught error) every key file
\* that was at its canonical path before the run is still there.
C3_FailedRunKeepsComponents ==
    pc \in {"exit1", "crashed"} =>
        /\ (pre.root /\ layout_found(pre)) => (store.root /\ layout_found(store))
        /\ (pre.root /\ mfd_found(pre)) => (store.root /\ mfd_found(store))

\* C4: when the base registry fetch raises, the run exits non-zero and the
\* descriptor is not written in that run.
C4_FetchFailureExits ==
    "base_raised" \in log => (pc = "exit1" /\ "descriptor_written" \notin log)

C4_Witness == "base_raised" \in log /\ pc = "exit1"

\* The contents of the store, whether or not its root directory exists.
contents(s) == [s EXCEPT !.root = TRUE]

\* C5 (as stated): when the base registry fetch raises, the store after the
\* run is what it was before the run, and the descriptor file is absent.
C5_StoreUnchangedDescriptorAbsent ==
    "base_raised" \in log => (contents(store) = contents(pre) /\ descr = "absent")

\* C5 (amended): the step of main in which the base registry fetch raises
\* changes nothing in the store but the existence of its root directory, and
\* it ends a run that has not touched the descriptor.
C5_FailedFetchTouchesNothing ==
    [][(pc = "fetch" /\ "base_raised" \in log') =>
          /\ store' = [store EXCEPT !.root = TRUE]
          /\ descr' = preDescr
          /\ "descriptor_written" \notin log']_vars

C5_Witness ==
    /\ "base_raised" \in log
    /\ pc = "exit1"
    /\ "pre_repair" \in log
    /\ contents(store) # contents(pre)

zero_size_required(s) ==
    \/ (layout_found(s) /\ s.layout.sub[LayoutModel] = 0)
    \/ (mfd_found(s) /\ s.mfd.sub[YoloModel] = 0)

\* C6: the inspection never finds the store complete while a key file is
\* present with a size of 0 bytes.
C6_ZeroSizeNotComplete ==
    (pc = "uni" /\ "route_uni" \in log) => ~zero_size_required(store)

\* C7: a run that fetched the base collection and ends with the
\* formula-recognition weights failing the integrity check writes a descriptor
\* whose formula-recognition flag is false.
C7_FlagOffWhenWeightsFail ==
    (pc = "done" /\ "base_ok" \in log /\ ~check_unimernet_complete(store))
        => descr = "off"

\* The required components passed the inspection, the repair or the fetch.
provisioned == log \cap {"route_uni", "repair_fixed", "base_ok"} # {}

\* C8: a failure of the formula-recognition component never makes the run
\* fail: after a failed download_unimernet_models main goes on to
\* create_config, and a run past the required components whose weights are
\* missing or too small ends with the descriptor written and exit 0.
C8_OptionalFailureNotFatal ==
    /\ "uni_failed" \in log => pc \in {"config", "done"}
    /\ (pc \in Terminal /\ provisioned
        /\ ("uni_failed" \in log \/ ~check_unimernet_complete(store)))
          => (pc = "done" /\ "descriptor_written" \in log /\ descr \in {"on", "off"})

C8_Witness ==
    pc = "done" /\ "uni_failed" \in log /\ "descriptor_written" \in log

\* C9: pytorch_model.bin of T - 1 bytes is reported too small and of exactly
\* T bytes complete, T = 100 MiB.
C9_ThresholdIsComplete ==
    (pc = "verified" /\ store.mfr.exists /\ store.mfr.small.kind = "dir") =>
        /\ store.mfr.small.bin = Threshold - 1 => log = {"incomplete"}
        /\ store.mfr.small.bin = Threshold => log = {"complete"}

\* C10: a pass of create_mfr_symlinks leaves every real directory that
\* occupies an alias path as it was, contents included.
C10_RealDirectoryUntouched ==
    pc = "aliased" =>
        \A a \in AliasNames :
            pre.mfr.alias[a].kind = "dir" => store.mfr.alias[a] = pre.mfr.alias[a]

C10_Witness ==
    /\ pc = "aliased"
    /\ \E a, b \in AliasNames :
          /\ pre.mfr.alias[a].kind = "dir"
          /\ store.mfr.alias[a] = pre.mfr.alias[a]
          /\ pre.mfr.alias[b].kind = "absent"
          /\ store.mfr.alias[b].kind = "link"

\* C11: a repair pass over a store whose two key files are at their canonical
\* nested paths changes nothing under Layout/ and MFD/, whatever other files
\* sit beside the nested directories.
C11_CanonicalRepairNoOp ==
    (pc = "repaired" /\ check_models_exist(pre)) =>
        (store.layout = pre.layout /\ store.mfd = pre.mfd)

\* The base snapshot of this run holds the flat layout.
flat_delivered ==
    /\ registry.base # 0
    /\ BaseSnapshots[registry.base].layout = FlatLayout
    /\ BaseSnapshots[registry.base].mfd = FlatMfd

\* C12: a run that starts on an empty or absent store and whose base fetch
\* succeeds with the flat layout goes on to exit 0 with both key files at
\* their canonical nested paths and the descriptor written.
C12_FlatFetchEndsCanonical ==
    (~store_nonempty(pre) /\ "base_ok" \in log /\ flat_delivered) =>
        /\ pc \in {"uni", "config", "done"}
        /\ check_models_exist(store)
        /\ Present(store.layout.top) = {} /\ Present(store.mfd.top) = {}
        /\ pc = "done" => ("descriptor_written" \in log /\ descr \in {"on", "off"})

C12_Witness ==
    /\ ~store_nonempty(pre) /\ "base_ok" \in log /\ flat_delivered
    /\ pc = "done"
    /\ check_models_exist(store)
    /\ "descriptor_written" \in log

\* C13: at the end of every run that called download_models, the staging
\* directory does not exist, whether the fetch and the merge succeeded or
\* failed.
C13_StagingRemoved ==
    (pc \in Terminal /\ "base_called" \in log) => ~staging

\* The required components were missing from a non-empty store at the start
\* of a non-forced run, and a repair pass of the run has made them present.
repaired_without_fetch ==
    /\ ~force
    /\ store_nonempty(pre)
    /\ ~check_models_exist(pre)
    /\ \/ "repair_fixed" \in log
       \/ ("pre_repair" \in log /\ "route_uni" \in log)

\* C14: in a non-forced run on a non-empty store with a key file missing,
\* once the flat-layout repair has made both key files present,
\* download_models is not called and the run goes on to write the descriptor.
C14_RepairAvoidsFetch ==
    repaired_without_fetch =>
        /\ "base_called" \notin log
        /\ pc \in {"uni", "config", "done"}
        /\ check_models_exist(store)
        /\ pc = "done" => "descriptor_written" \in log

C14_Witness ==
    repaired_without_fetch /\ "repair_fixed" \in log /\ pc = "done"

\* C15 (as stated): in a non-forced run that starts with both key files at
\* their canonical paths, no registry fetch of any collection, base or
\* formula recognition, is made and the run goes to the descriptor.
C15_NoFetchWhenComplete ==
    (~force /\ pre.root /\ check_models_exist(pre)) =>
        /\ log \cap {"base_called", "uni_called"} = {}
        /\ pc \notin {"repair", "fetch", "exit1"}

\* C15 (amended): in such a run download_models is never called and the run
\* goes to the descriptor; download_unimernet_models is called on the way
\* only when formula recognition is enabled and the unimernet weights fail
\* the integrity check.
C15_NoBaseFetchWhenComplete ==
    [][(~force /\ pre'.root /\ check_models_exist(pre')) =>
          /\ "base_called" \notin log'
          /\ pc' \notin {"repair", "fetch", "exit1"}
          /\ ("uni_called" \in log' /\ "uni_called" \notin log) =>
                (formula_enabled /\ ~check_unimernet_complete(store))
          /\ pc' = "done" => "descriptor_written" \in log']_vars

C15_Witness ==
    /\ ~force /\ pre.root /\ check_models_exist(pre)
    /\ pc = "done"
    /\ "uni_called" \in log
    /\ "descriptor_written" \in log

\* C16: with --force every run calls download_models whatever the store
\* holds and never takes the repair-only path; it exits 0 only with both key
\* files present and exits non-zero when the fetch failed.  Runs cut short by
\* an I/O fault are left aside.
C16_ForceAlwaysFetches ==
    (force /\ pc \in Terminal /\ "fault" \notin log) =>
        /\ "base_called" \in log
        /\ "repair" \notin log
        /\ pc = "done" => check_models_exist(store)
        /\ "base_failed" \in log => pc = "exit1"

\* C17: the descriptor is written by the create_config step of main and by
\* no other step: at most once in a run, as the last step of the run; every
\* run that exits 0 has written it and it is then a well-formed descriptor;
\* a run that exits non-zero has not written it.
C17_DescriptorWrittenLast ==
    [][/\ (descr' # descr \/ ("descriptor_written" \in log' /\ "descriptor_written" \notin log))
            => (pc = "config" /\ pc' = "done")
       /\ "descriptor_written" \in log => (descr' = descr /\ pc' \in {"done", "start"})
       /\ pc' = "done" => ("descriptor_written" \in log' /\ descr' \in {"on", "off"})
       /\ pc' \in {"exit1", "crashed"} => ("descriptor_written" \notin log' /\ descr' = preDescr)
      ]_vars

C17_Witness ==
    /\ pc = "done"
    /\ "descriptor_written" \in log
    /\ log \cap {"pre_repair", "repair", "base_called", "uni_called"} # {}
    /\ descr # preDescr

\* A move under Layout/ raised in the pass from pre to store.
layout_move_failed ==
    /\ "fault" \in log
    /\ \E o \in fix_layout(pre.layout, TRUE) : o.raised /\ o.s = store.layout

\* MFD/ was in the flat layout before the pass.
mfd_was_flat ==
    /\ pre.mfd.exists
    /\ pre.mfd.top[FlatWeights] # NoFile
    /\ ~(pre.mfd.hasSub /\ pre.mfd.sub[YoloModel] # NoFile)

\* C18: when a move under Layout/ fails in a pass of
\* create_directory_structure, the MFD repair is still made in that pass, and
\* Layout/ is left fully flat (its files where they were) or fully nested
\* (nothing left directly under Layout/).
C18_LayoutFailureIsLocal ==
    (pc = "repaired" /\ layout_move_failed) =>
        /\ mfd_was_flat => mfd_found(store)
        /\ \/ (store.layout.top = pre.layout.top /\ store.layout.sub = pre.layout.sub)
           \/ Present(store.layout.top) = {}

\* unimernet_small resolved to a directory before the pass, so that the loop
\* over the alias table ran.
small_was_dir == pre.mfr.exists /\ resolve_small(pre.mfr).kind = "dir"

\* C19: when os.symlink fails, every alias path that was free or held a
\* symlink ends up as a copy of the canonical unimernet_small directory, and
\* the pass goes through the whole alias table.
C19_CopyFallback ==
    (pc = "aliased" /\ ~symlinkOK /\ small_was_dir) =>
        \A a \in AliasNames :
            pre.mfr.alias[a].kind \in {"absent", "link"} =>
                store.mfr.alias[a] = resolve_small(pre.mfr)

\* C20: after a pass in which unimernet_small exists, every alias name
\* resolves to a directory, and an alias path that held a symlink before the
\* pass, whatever its target, holds a symlink to the resolved path of
\* unimernet_small.
C20_AliasesResolve ==
    (pc = "aliased" /\ small_was_dir) =>
        \A a \in AliasNames :
            /\ resolve_alias(store.mfr, store.mfr.alias[a]).kind = "dir"
            /\ pre.mfr.alias[a].kind = "link" =>
                  store.mfr.alias[a] = LinkEntry(realpath_small(pre.mfr))

\* Layout/ was in the flat layout before the pass.
layout_was_flat ==
    /\ pre.layout.exists
    /\ pre.layout.top[LayoutModel] # NoFile
    /\ ~(pre.layout.hasSub /\ pre.layout.sub[LayoutModel] # NoFile)

\* The file n, directly under the component before the pass, is in the nested
\* directory under the name m after it.
moved_as(before, after, n, m) ==
    after.hasSub /\ after.sub[m] = before.top[n] /\ after.top[n] = NoFile

taken_in_yolo(n) == n = YoloModel \/ (pre.mfd.hasSub /\ pre.mfd.sub[n] # NoFile)

C23_PassAfterFetch ==
    [][/\ ("base_ok" \in log' /\ "base_ok" \notin log) =>
             /\ "base_fixed" \in log'
             /\ "descriptor_written" \notin log'
             /\ create_directory_structure(store', is_formula_enabled(repoCfg, descr),
                                           symlinkOK, FALSE)
                   = {Outcome(store', FALSE)}
       /\ ("uni_ok" \in log' /\ "uni_ok" \notin log) =>
             /\ store'.mfr = create_mfr_symlinks(store'.mfr, symlinkOK)
             /\ symlinkOK =>
                   \A a \in AliasNames :
                       store.mfr.alias[a].kind \in {"absent", "link"} =>
                           store'.mfr.alias[a] = LinkEntry("small")
             /\ "descriptor_written" \notin log'
             /\ pc' = "config"
      ]_vars

C23_Witness ==
    /\ pc = "done"
    /\ {"base_ok", "base_fixed", "uni_ok", "descriptor_written"} \subseteq log
    /\ BaseSnapshots[registry.base].layout = FlatLayout
    /\ \E a \in AliasNames : store.mfr.alias[a] = LinkEntry("small")

\* C24: a real directory that sat at an alias path under MFR/ when a run
\* started is still there, with its contents, when the run has completed.
C24_UserAliasSurvivesRun ==
    pc = "done" =>
        \A a \in AliasNames :
            pre.mfr.alias[a].kind = "dir" =>
                (store.mfr.exists /\ store.mfr.alias[a] = pre.mfr.alias[a])

\* C25: when download_unimernet_models fails, a directory MFR/unimernet_small
\* that existed before the fetch is still there with its contents.  (Runs
\* without a base fetch, in which nothing else touches that directory.)
C25_FailedFetchKeepsWeights ==
    ("uni_failed" \in log /\ "base_called" \notin log
     /\ pre.mfr.exists /\ pre.mfr.small.kind = "dir") =>
        (store.mfr.exists /\ store.mfr.small = pre.mfr.small)

\* No alias path of the store s holds a symlink that resolves to nothing.
no_dangling_alias(s) ==
    \A a \in AliasNames :
        (s.mfr.exists /\ s.mfr.alias[a].kind = "link") => alias_exists(s.mfr, a)

\* C26: a run with formula recognition enabled that starts without dangling
\* alias ends without one, whatever succeeded or failed in it.
C26_NoDanglingAlias ==
    (pc \in Terminal /\ formula_enabled /\ no_dangling_alias(pre)) =>
        no_dangling_alias(store)

\* The alias paths that hold a symlink in the store s, with their targets.
alias_links(s) ==
    {<< a, s.mfr.alias[a].to >> : a \in {b \in AliasNames : s.mfr.alias[b].kind = "link"}}

\* C27: in a run with formula recognition disabled in the configuration,
\* download_unimernet_models is never called and no alias symlink under MFR/
\* is created or removed, base fetch or not.
C27_DisabledLeavesAliases ==
    (~is_formula_enabled(repoCfg, preDescr) /\ pc # "start") =>
        /\ "uni_called" \notin log
        /\ alias_links(store) = alias_links(pre)

\* C28: every call of is_formula_enabled within a run gives the value of the
\* first one, the flag of the descriptor a run writes is that value, and
\* without repo-local configuration file a run that finds a descriptor with a
\* flag writes a descriptor with the same flag.
C28_FlagStable ==
    /\ pc # "start" => is_formula_enabled(repoCfg, descr) = formula_enabled
    /\ pc = "done" =>
          /\ (descr = "on") = is_formula_enabled(repoCfg, preDescr)
          /\ descr \in {"on", "off"}
          /\ (repoCfg = "absent" /\ preDescr \in {"on", "off"}) => descr = preDescr

C28_Witness ==
    /\ run = 2 /\ pc = "done"
    /\ repoCfg = "absent"
    /\ preDescr = "on"
    /\ "descriptor_written" \in log

\* C29: once the temporary file of a request has been created, it is gone
\* when the request has been answered, on every exit path.
C29_TempFileDeleted ==
    api_pc = "responded" => ~tmp_file

\* C30: tesseract_ocr_fallback is called exactly when the MinerU path raised
\* FileNotFoundError or ImportError (a subclass included), and at most once
\* in a request; any other exception of the MinerU path and any exception of
\* the fallback is answered with HTTP 500.
C30_FallbackExactlyOnUnavailable ==
    /\ fallback_calls <= 1
    /\ (api_pc \in {"except", "finally", "responded"} /\ mineru # "none") =>
          (fallback_calls = 1) =
             (mineru \in {"FileNotFoundError", "ImportError", "ModuleNotFoundError"})
    /\ (api_pc = "responded" /\ mineru \in {"PermissionError", "RuntimeError"}) =>
          (status = 500 /\ fallback_calls = 0)
    /\ (api_pc = "responded" /\ fallback_calls = 1 /\ raised # "none") => status = 500
    /\ (api_pc = "responded" /\ mineru = "ok") => (status = 200 /\ fallback_calls = 0)

C30_Witness ==
    /\ api_pc = "responded"
    /\ mineru = "ImportError"
    /\ fallback_calls = 1
    /\ raised = "FileNotFoundError"
    /\ status = 500

\* The alias path a holds a symlink that the pass from pre to store made.
made_link(a) ==
    store.mfr.alias[a].kind = "link" /\ store.mfr.alias[a] # pre.mfr.alias[a]

\* The path t is neither an alias path nor a symlink.
plain_target(mfr, t) == t # "peer" /\ entry_at(mfr, t).kind # "link"

\* C21: every alias symlink the program makes names a path that is not an
\* alias path and not a symlink: one level of indirection.
C21_OneLevelOfIndirection ==
    pc = "aliased" =>
        \A a \in AliasNames :
            made_link(a) => plain_target(store.mfr, store.mfr.alias[a].to)

====
